---- MODULE Spec2Model ----
(***************************************************************************)
(* API anomaly detection service (src/main.py): the module-level model     *)
(* state (model, scaler, is_trained), the two persisted artifacts, the     *)
(* Prometheus counters, and the request handlers train_model,              *)
(* detect_anomalies, get_model_status and load_model.                      *)
(*                                                                         *)
(* Every handler is an `async def` without a single await, so the event    *)
(* loop runs each one from its first line to its return (or raise) with no *)
(* other handler in between: one action per handler.                       *)
(*                                                                         *)
(* Numbers: anomaly scores and thresholds are in hundredths (-0.8 is -80), *)
(* test_size is in hundredths (0.2 is 20), response_time in milliseconds,  *)
(* timestamps in seconds since the epoch.  A rate or a mean is the pair    *)
(* [num, den] of the division the code performs.                           *)
(***************************************************************************)
EXTENDS Integers, Sequences, FiniteSets, TLC

\* ---------------------------------------------------------------- bounds
\* training runs that get as far as creating a StandardScaler
MaxRuns == 2
\* load-model requests that get as far as deserialising the model
MaxLoads == 1
\* detect requests counted by REQUEST_COUNT
MaxRequests == 1
\* anomalies counted by ANOMALY_COUNT
MaxAnomalies == 2
\* records in a batch given to extract_features on its own
MaxLen == 2
\* rows given to train_test_split on its own
MaxRows == 9
\* requests received and not yet started
MaxWaiting == 1
\* requests received by one process
MaxArrivals == 2

\* ------------------------------------------------------- program constants
\* severity cut-offs of detect_anomalies, in hundredths
HighCut == -80
MediumCut == -50
\* recency window of extract_features, in seconds
Window == 3600
\* AnomalyDetectionRequest.threshold default, in hundredths
DefaultThreshold == -50
\* TrainingData.test_size default, in hundredths
DefaultTestSize == 20
\* train_test_split's own default when test_size is None, in hundredths
SplitDefault == 25

\* Python's None for an Optional field: the empty tuple; a value v is <<v>>.
NoneVal == << >>
Some(v) == <<v>>

\* ------------------------------------------------------------- APILog
APILog(ts, aware, user, ep, code, rt, reqsz, respsz) ==
    [timestamp |-> ts, aware |-> aware, user_id |-> user, endpoint |-> ep,
     method |-> "GET", status_code |-> code, response_time |-> rt,
     ip_address |-> "10.0.0.1", user_agent |-> "agent",
     request_size |-> reqsz, response_size |-> respsz]

LogA == APILog(0, TRUE, "u1", "/a", 200, 100, Some(10), NoneVal)
LogB == APILog(3600, TRUE, "u1", "/b", 500, 5000, NoneVal, Some(0))
LogC == APILog(90000, TRUE, "u2", "/a", 404, 200, Some(10), Some(20))
\* a timestamp sent without a UTC offset parses to a naive datetime
LogN == APILog(60, FALSE, "u2", "/b", 200, 100, NoneVal, NoneVal)

\* the request batches explored by the handlers
Batches == { << >>, <<LogA>>, <<LogC, LogA, LogB>>, <<LogA, LogN>> }

\* ----------------------------------------------------- extract_features
Ratio(n, d) == [num |-> n, den |-> d]

\* x or 0
OrZero(x) == IF x = NoneVal THEN 0 ELSE x[1]

RECURSIVE SumOver(_, _, _)
\* sum of f[i] over the indices in S
SumOver(f, S, acc) ==
    IF S = {} THEN acc
    ELSE LET i == CHOOSE j \in S : TRUE
         IN SumOver(f, S \ {i}, acc + f[i])

\* len([l for l in ls if l.status_code >= 400]) / len(ls) if ls else 0
ErrorRate(logs, S) ==
    IF S = {} THEN Ratio(0, 1)
    ELSE Ratio(Cardinality({i \in S : logs[i].status_code >= 400}),
               Cardinality(S))

\* np.mean([l.response_time for l in ls])
MeanResponseTime(logs, S) ==
    Ratio(SumOver([i \in DOMAIN logs |-> logs[i].response_time], S, 0),
          Cardinality(S))

\* mutant of UserLogs: only the records up to the current one are counted
UserLogs_Preceding(logs, i) ==
    {j \in DOMAIN logs : j <= i /\ logs[j].user_id = logs[i].user_id}

\* [l for l in logs if l.user_id == log.user_id]
UserLogs(logs, i) == {j \in DOMAIN logs : logs[j].user_id = logs[i].user_id}

EndpointLogs(logs, i) ==
    {j \in DOMAIN logs : logs[j].endpoint = logs[i].endpoint}

\* mutant of RecentLogs: a record exactly one hour earlier is counted
RecentLogs_Inclusive(logs, i) ==
    {j \in DOMAIN logs : logs[i].timestamp - logs[j].timestamp <= Window}

\* mutant of RecentLogs: the window reaches one hour into the future only
RecentLogs_Symmetric(logs, i) ==
    {j \in DOMAIN logs :
        /\ logs[i].timestamp - logs[j].timestamp < Window
        /\ logs[j].timestamp - logs[i].timestamp < Window}

\* (log.timestamp - l.timestamp).total_seconds() < 3600, not absolute-valued
RecentLogs(logs, i) ==
    {j \in DOMAIN logs : logs[i].timestamp - logs[j].timestamp < Window}

FeatureRow(logs, i) ==
    [hour |-> (logs[i].timestamp \div 3600) % 24,
     day_of_week |-> ((logs[i].timestamp \div 86400) + 3) % 7,
     status_code |-> logs[i].status_code,
     response_time |-> logs[i].response_time,
     request_size |-> OrZero(logs[i].request_size),
     response_size |-> OrZero(logs[i].response_size),
     user_request_frequency |-> Cardinality(UserLogs(logs, i)),
     user_avg_response_time |-> MeanResponseTime(logs, UserLogs(logs, i)),
     user_error_rate |-> ErrorRate(logs, UserLogs(logs, i)),
     endpoint_frequency |-> Cardinality(EndpointLogs(logs, i)),
     endpoint_avg_response_time |->
         MeanResponseTime(logs, EndpointLogs(logs, i)),
     endpoint_error_rate |-> ErrorRate(logs, EndpointLogs(logs, i)),
     recent_requests |-> Cardinality(RecentLogs(logs, i)),
     recent_error_rate |-> ErrorRate(logs, RecentLogs(logs, i))]

\* Subtracting a naive datetime from an aware one (or the reverse) raises
\* TypeError, which ends extract_features.
ExtractRaises(logs) ==
    \E i, j \in DOMAIN logs : logs[i].aware # logs[j].aware

extract_features(logs) ==
    IF ExtractRaises(logs)
    THEN [ok |-> FALSE, rows |-> << >>]
    ELSE [ok |-> TRUE, rows |-> [i \in DOMAIN logs |-> FeatureRow(logs, i)]]

\* extract_features on each batch the handlers are given, evaluated once
FeatureFrames == [logs \in Batches |-> extract_features(logs)]

\* the call extract_features(request.logs) of a handler
Features(logs) == FeatureFrames[logs]

\* number of columns of the DataFrame built from the feature dicts
FeatureCount(rows) == IF rows = << >> THEN 0 ELSE Cardinality(DOMAIN rows[1])


\* ------------------------------------------------------ train_test_split
\* RandomState(42).permutation(n) is one fixed order of 1..n for each n; the
\* order itself is a library detail and is represented by the identity.
Permutation(n) == [i \in 1..n |-> i]

\* mutant of CeilDiv: the quotient is rounded down
CeilDiv_Floor(a, b) == a \div b

\* ceil(a / b) for a >= 0, b > 0
CeilDiv(a, b) == (a + b - 1) \div b

\* sklearn.model_selection.train_test_split(df, test_size=ts, random_state=42)
\* on n rows: a float test_size outside (0, 1) is rejected, n_test is
\* ceil(ts * n), n_train the rest, and an empty training set is rejected.
\* The held-out rows are the first n_test of the permutation.
train_test_split(n, test_size) ==
    LET ts == IF test_size = NoneVal THEN SplitDefault ELSE test_size[1]
        n_test == CeilDiv(ts * n, 100)
        n_train == n - n_test
        perm == Permutation(n)
    IN IF ts <= 0 \/ ts >= 100 \/ n_train <= 0
       THEN [ok |-> FALSE, train |-> << >>, test |-> << >>]
       ELSE [ok |-> TRUE,
             train |-> [k \in 1..n_train |-> perm[n_test + k]],
             test |-> [k \in 1..n_test |-> perm[k]]]

\* --------------------------------------- estimator objects and artifacts
\* An estimator object: the training run whose constructor made it, the
\* load-model request that deserialised it (0: made in this process by
\* train_model), whether fit has completed on it, and the number of feature
\* names it was fit on.
Estimator(run, origin, fitted, nfeat) ==
    [run |-> run, origin |-> origin, fitted |-> fitted, nfeat |-> nfeat]

\* the initial value of the globals model and scaler
None == Estimator(0, 0, FALSE, 0)

\* contents of an artifact file; NoFile: os.path.exists is False
Artifact(run, fitted, nfeat) == [run |-> run, fitted |-> fitted, nfeat |-> nfeat]
NoFile == Artifact(0, FALSE, 0)

\* joblib.dump(obj, path): the file holds the object's fitted state
Pickle(obj) == Artifact(obj.run, obj.fitted, obj.nfeat)

\* joblib.load(path) by load request number id: a new object with that state
Unpickle(file, id) == Estimator(file.run, id, file.fitted, file.nfeat)

\* ------------------------------------------ scaling and scoring (sklearn)
\* The fitted transform and the fitted forest are deterministic functions of
\* their fit state and the row they are given.  The functions below stand for
\* them: they depend on the scaler's run, the model's run and the row, and
\* take every combination of label and score range over the batches explored.
Digest(row) ==
    row.status_code + row.response_time + row.hour + row.day_of_week
    + row.request_size + row.response_size + row.user_request_frequency
    + row.endpoint_frequency + row.recent_requests
    + row.user_error_rate.num + row.recent_error_rate.num

\* scaler.transform(df) raises on an unfitted scaler, on a frame with no rows
\* and on a frame whose columns are not the ones seen at fit.
TransformRaises(s, rows) ==
    \/ ~s.fitted
    \/ rows = << >>
    \/ FeatureCount(rows) # s.nfeat

\* scaler.transform(df), row by row
Transform(s, rows) ==
    [i \in DOMAIN rows |-> [scaler |-> s.run, digest |-> Digest(rows[i])]]

ScoreTable == <<-90, -80, -65, -50, -30, 10>>

\* model.decision_function(X)[i], in hundredths; lower is more anomalous
decision_function(m, x) ==
    ScoreTable[((x.digest + m.run + 3 * x.scaler) % Len(ScoreTable)) + 1]

\* model.predict(X)[i]: -1 anomalous, 1 normal
predict(m, x) ==
    IF ((x.digest \div 7) + m.run + x.scaler) % 2 = 0 THEN -1 ELSE 1


\* ------------------------------------------------------------------ state
VARIABLES
    model,          \* global model
    scaler,         \* global scaler
    is_trained,     \* global is_trained
    disk_model,     \* models/isolation_forest.pkl
    disk_scaler,    \* models/scaler.pkl
    REQUEST_COUNT,  \* api_requests_total{method=POST, endpoint=/detect}
    ANOMALY_COUNT,  \* anomalies_detected_total
    nextRun,        \* number of the next training run that constructs estimators
    nextLoad,       \* number of the next load-model request that deserialises
    response,       \* what the last request returned or raised
    calls,          \* the collaborator calls the last request made, in order
    roundTrip,      \* where the process is on the path train, restart, load
    running,        \* the request whose handler the event loop is executing
    waiting,        \* the requests received and not yet started, oldest first
    answered,       \* number of requests whose handler has returned or raised
    finished        \* the request answered last

\* the event loop's own state
loopVars == <<running, waiting, answered, finished>>

vars == <<model, scaler, is_trained, disk_model, disk_scaler, REQUEST_COUNT,
          ANOMALY_COUNT, nextRun, nextLoad, response, calls, roundTrip,
          running, waiting, answered, finished>>

\* no handler is executing
Idle == [op |-> "idle"]

Call(fn, on) == [fn |-> fn, on |-> on]

Reply(op, status, detail, req, body) ==
    [op |-> op, status |-> status, detail |-> detail, req |-> req, body |-> body]

NoBody == [none |-> TRUE]

NoTrip == [phase |-> "none", scaler |-> NoFile, model |-> NoFile]

\* the values the module sets when it is imported, on an empty models/ directory
Init ==
    /\ model = None
    /\ scaler = None
    /\ is_trained = FALSE
    /\ disk_model = NoFile
    /\ disk_scaler = NoFile
    /\ REQUEST_COUNT = 0
    /\ ANOMALY_COUNT = 0
    /\ nextRun = 1
    /\ nextLoad = 1
    /\ response = Reply("start", 0, "", NoBody, NoBody)
    /\ calls = << >>
    /\ roundTrip = NoTrip
    /\ running = Idle
    /\ waiting = << >>
    /\ answered = 0
    /\ finished = Idle

\* ------------------------------------------------------------ train_model
\* The steps of train_model that can raise, in program order; Done is the
\* return statement.
AtExtract == 1
AtSplit == 2
AtFitScaler == 3
AtFitModel == 4
AtMakedirs == 5
AtDumpModel == 6
AtDumpScaler == 7
Done == 8

\* failures of the collaborators that do not depend on the request: fitting,
\* creating the directory, writing either file
TrainFaults == {AtFitScaler, AtFitModel, AtMakedirs, AtDumpModel, AtDumpScaler, Done}

\* the step at which this request ends
TrainStage(training_data, fault) ==
    IF ~Features(training_data.logs).ok THEN AtExtract
    ELSE IF ~train_test_split(Len(training_data.logs),
                              training_data.test_size).ok THEN AtSplit
    ELSE fault

\* scaler = StandardScaler(); scaler.fit_transform(X_train)
ScalerAfterTrain(at, old, run, nfeat) ==
    IF at < AtFitScaler THEN old
    ELSE IF at = AtFitScaler THEN Estimator(run, 0, FALSE, 0)
    ELSE Estimator(run, 0, TRUE, nfeat)

\* model = IsolationForest(...); model.fit(X_train_scaled)
ModelAfterTrain(at, old, run, nfeat) ==
    IF at < AtFitModel THEN old
    ELSE IF at = AtFitModel THEN Estimator(run, 0, FALSE, 0)
    ELSE Estimator(run, 0, TRUE, nfeat)

\* mutant of FileAfterDump: the dump writes nothing
FileAfterDump_KeepOld(at, step, obj, old) == old

\* joblib.dump(obj, path) at step `step`: the file is replaced once the dump
\* has returned
FileAfterDump(at, step, obj, old) ==
    IF at > step THEN Pickle(obj) ELSE old

\* mutant of TrainedAfterTrain: the flag is cleared when the train fails
TrainedAfterTrain_Reset(at, old) == at = Done

\* is_trained = True, the last statement before the return
TrainedAfterTrain(at, old) == IF at = Done THEN TRUE ELSE old

\* np.sum(predictions == label) over the rows idx of the split
CountLabel(m, X, idx, label) ==
    Cardinality({k \in DOMAIN idx : predict(m, X[idx[k]]) = label})

\* mutant of TrainPayload: training_samples is the size of the training split
TrainPayload_SplitSize(training_data, s, m) ==
    LET logs == training_data.logs
        sp == train_test_split(Len(logs), training_data.test_size)
        X == Transform(s, Features(logs).rows)
    IN [status |-> "success",
        training_samples |-> Len(sp.train),
        train_anomalies |-> CountLabel(m, X, sp.train, -1),
        test_anomalies |-> CountLabel(m, X, sp.test, -1),
        model_accuracy |-> Ratio(CountLabel(m, X, sp.test, 1), Len(sp.test))]

\* the dict train_model returns
TrainPayload(training_data, s, m) ==
    LET logs == training_data.logs
        sp == train_test_split(Len(logs), training_data.test_size)
        X == Transform(s, Features(logs).rows)
    IN [status |-> "success",
        training_samples |-> Len(logs),
        train_anomalies |-> CountLabel(m, X, sp.train, -1),
        test_anomalies |-> CountLabel(m, X, sp.test, -1),
        model_accuracy |-> Ratio(CountLabel(m, X, sp.test, 1), Len(sp.test))]

TrainCause(at) ==
    CASE at = AtExtract -> "extract_features"
      [] at = AtSplit -> "train_test_split"
      [] at = AtFitScaler -> "scaler.fit_transform"
      [] at = AtFitModel -> "model.fit"
      [] at = AtMakedirs -> "os.makedirs"
      [] at = AtDumpModel -> "joblib.dump model"
      [] at = AtDumpScaler -> "joblib.dump scaler"
      [] OTHER -> ""

\* the steps a train that ends at step `at` has entered, with the estimator
\* each one works on
TrainCalls(at, s, m) ==
    LET all == <<Call("extract_features", None), Call("train_test_split", None),
                 Call("fit_transform", s), Call("fit", m),
                 Call("makedirs", None), Call("dump", m), Call("dump", s)>>
    IN SubSeq(all, 1, IF at = Done THEN Len(all) ELSE at)

\* the round trip starts anew at a successful train and is off after a failed one
TripAfterTrain(at, s, m) ==
    IF at = Done THEN [phase |-> "trained", scaler |-> Pickle(s), model |-> Pickle(m)]
    ELSE NoTrip

train_model(training_data, fault) ==
    LET at == TrainStage(training_data, fault)
        nfeat == FeatureCount(Features(training_data.logs).rows)
        s == ScalerAfterTrain(at, scaler, nextRun, nfeat)
        m == ModelAfterTrain(at, model, nextRun, nfeat)
    IN /\ at >= AtFitScaler => nextRun <= MaxRuns
       /\ scaler' = s
       /\ model' = m
       /\ disk_model' = FileAfterDump(at, AtDumpModel, m, disk_model)
       /\ disk_scaler' = FileAfterDump(at, AtDumpScaler, s, disk_scaler)
       /\ is_trained' = TrainedAfterTrain(at, is_trained)
       /\ nextRun' = IF at >= AtFitScaler THEN nextRun + 1 ELSE nextRun
       /\ response' =
            IF at = Done
            THEN Reply("train", 200, "Model trained successfully", training_data,
                       TrainPayload(training_data, s, m))
            ELSE Reply("train", 500, "Training failed", training_data,
                       [cause |-> TrainCause(at)])
       /\ calls' = TrainCalls(at, s, m)
       /\ roundTrip' = TripAfterTrain(at, s, m)
       /\ UNCHANGED <<REQUEST_COUNT, ANOMALY_COUNT, nextLoad>>


\* ------------------------------------------------------- detect_anomalies
\* mutant of NotTrained: the guard looks at the estimators only
NotTrained_NoFlag(trained, m, s) == m = None \/ s = None

\* if not is_trained or model is None or scaler is None
NotTrained(trained, m, s) == ~trained \/ m = None \/ s = None

\* mutant of IsAnomaly: the label alone decides
IsAnomaly_LabelOnly(prediction, score, threshold) == prediction = -1

\* mutant of IsAnomaly: a score equal to the threshold is reported
IsAnomaly_Inclusive(prediction, score, threshold) ==
    prediction = -1 /\ score <= threshold

\* mutant of IsAnomaly: the comparison with the threshold is reversed
IsAnomaly_Reversed(prediction, score, threshold) ==
    prediction = -1 /\ score > threshold

\* prediction == -1 and score < request.threshold
IsAnomaly(prediction, score, threshold) ==
    prediction = -1 /\ score < threshold

\* mutant of Severity: the cut-offs are inclusive
Severity_Inclusive(score) ==
    IF score <= HighCut THEN "high"
    ELSE IF score <= MediumCut THEN "medium"
    ELSE "low"

\* "high" if score < -0.8 else "medium" if score < -0.5 else "low"
Severity(score) ==
    IF score < HighCut THEN "high"
    ELSE IF score < MediumCut THEN "medium"
    ELSE "low"

\* mutant of AnomalyData: log_index counts from 1
AnomalyData_OneBased(logs, i, score) ==
    [log_index |-> i,
     timestamp |-> logs[i].timestamp,
     user_id |-> logs[i].user_id,
     endpoint |-> logs[i].endpoint,
     method |-> logs[i].method,
     status_code |-> logs[i].status_code,
     response_time |-> logs[i].response_time,
     anomaly_score |-> score,
     severity |-> Severity(score)]

\* anomaly_data for the record at position i (log_index counts from 0)
AnomalyData(logs, i, score) ==
    [log_index |-> i - 1,
     timestamp |-> logs[i].timestamp,
     user_id |-> logs[i].user_id,
     endpoint |-> logs[i].endpoint,
     method |-> logs[i].method,
     status_code |-> logs[i].status_code,
     response_time |-> logs[i].response_time,
     anomaly_score |-> score,
     severity |-> Severity(score)]

\* the loop over zip(request.logs, predictions, scores)
Anomalies(logs, predictions, scores, threshold) ==
    LET hits == SelectSeq([i \in DOMAIN logs |-> i],
                          LAMBDA i : IsAnomaly(predictions[i], scores[i], threshold))
    IN [k \in DOMAIN hits |-> AnomalyData(logs, hits[k], scores[hits[k]])]

\* AnomalyDetectionResponse(...)
DetectionResponse(logs, anomalies, scores) ==
    [anomalies |-> anomalies,
     total_logs |-> Len(logs),
     anomaly_count |-> Len(anomalies),
     anomaly_rate |-> IF logs # << >> THEN Ratio(Len(anomalies), Len(logs))
                      ELSE Ratio(0, 1),
     model_confidence |->
         Ratio(SumOver(scores, DOMAIN scores, 0), Len(scores))]

\* The body of detect_anomalies after the guard, run with scaler s and model
\* m: the status, the body, the calls made and the number of ANOMALY_COUNT
\* increments.  A threshold of None makes the comparison raise TypeError at
\* the first row predicted -1, before any increment.
Detection(s, m, request) ==
    LET logs == request.logs
        ex == Features(logs)
        X == Transform(s, ex.rows)
        predictions == [i \in DOMAIN X |-> predict(m, X[i])]
        scores == [i \in DOMAIN X |-> decision_function(m, X[i])]
        Failed(cause, cs) ==
            [status |-> 500, detail |-> "Detection failed",
             body |-> [cause |-> cause], calls |-> cs, count |-> 0]
        c1 == <<Call("extract_features", None)>>
        c2 == Append(c1, Call("transform", s))
        c3 == Append(c2, Call("predict", m))
        c4 == Append(c3, Call("decision_function", m))
    IN IF ~ex.ok THEN Failed("extract_features", c1)
       ELSE IF TransformRaises(s, ex.rows) THEN Failed("scaler.transform", c2)
       ELSE IF ~m.fitted THEN Failed("model.predict", c3)
       ELSE IF request.threshold = NoneVal
               /\ \E i \in DOMAIN X : predictions[i] = -1
            THEN Failed("score < threshold", c4)
       ELSE LET threshold == IF request.threshold = NoneVal THEN 0
                             ELSE request.threshold[1]
                anomalies == Anomalies(logs, predictions, scores, threshold)
            IN [status |-> 200, detail |-> "",
                body |-> DetectionResponse(logs, anomalies, scores),
                calls |-> c4, count |-> Len(anomalies)]

\* mutant of detect_anomalies: the request fits a scaler of its own and
\* leaves it in the global
detect_anomalies_Refit(request) ==
    LET refit == Estimator(nextRun, 0, TRUE,
                           FeatureCount(Features(request.logs).rows))
        d == Detection(refit, model, request)
    IN /\ ~NotTrained(is_trained, model, scaler)
       /\ REQUEST_COUNT < MaxRequests
       /\ ANOMALY_COUNT + d.count <= MaxAnomalies
       /\ REQUEST_COUNT' = REQUEST_COUNT + 1
       /\ ANOMALY_COUNT' = ANOMALY_COUNT + d.count
       /\ scaler' = refit
       /\ response' = Reply("detect", d.status, d.detail, request, d.body)
       /\ calls' = <<Call("fit_transform", refit)>> \o d.calls
       /\ UNCHANGED <<model, is_trained, disk_model, disk_scaler,
                      nextRun, nextLoad, roundTrip>>

\* mutant of detect_anomalies: the counter is incremented once for a request
\* that found anomalies
detect_anomalies_CountOnce(request) ==
    LET d == Detection(scaler, model, request)
    IN /\ ~NotTrained(is_trained, model, scaler)
       /\ REQUEST_COUNT < MaxRequests
       /\ ANOMALY_COUNT + d.count <= MaxAnomalies
       /\ REQUEST_COUNT' = REQUEST_COUNT + 1
       /\ ANOMALY_COUNT' = ANOMALY_COUNT + (IF d.count > 0 THEN 1 ELSE 0)
       /\ response' = Reply("detect", d.status, d.detail, request, d.body)
       /\ calls' = d.calls
       /\ UNCHANGED <<model, scaler, is_trained, disk_model, disk_scaler,
                      nextRun, nextLoad, roundTrip>>

detect_anomalies(request) ==
    IF NotTrained(is_trained, model, scaler)
    THEN /\ response' = Reply("detect", 400, "Model not trained", request, NoBody)
         /\ calls' = << >>
         /\ UNCHANGED <<model, scaler, is_trained, disk_model, disk_scaler,
                        REQUEST_COUNT, ANOMALY_COUNT, nextRun, nextLoad,
                        roundTrip>>
    ELSE LET d == Detection(scaler, model, request)
         IN /\ REQUEST_COUNT < MaxRequests
            /\ ANOMALY_COUNT + d.count <= MaxAnomalies
            /\ REQUEST_COUNT' = REQUEST_COUNT + 1
            /\ ANOMALY_COUNT' = ANOMALY_COUNT + d.count
            /\ response' = Reply("detect", d.status, d.detail, request, d.body)
            /\ calls' = d.calls
            /\ UNCHANGED <<model, scaler, is_trained, disk_model, disk_scaler,
                           nextRun, nextLoad, roundTrip>>

\* ------------------------------------------------------- get_model_status
\* len(scaler.feature_names_in_) if scaler else 0; an estimator object is
\* truthy, and an unfitted scaler has no feature_names_in_ (AttributeError,
\* which nothing catches)
get_model_status ==
    /\ response' =
         IF ~is_trained
         THEN Reply("status", 200, "", NoBody,
                    [is_trained |-> FALSE, training_date |-> NoneVal,
                     model_accuracy |-> NoneVal, feature_count |-> 0])
         ELSE IF scaler # None /\ ~scaler.fitted
         THEN Reply("status", 500, "Internal Server Error", NoBody, NoBody)
         ELSE Reply("status", 200, "", NoBody,
                    [is_trained |-> TRUE, training_date |-> Some("now"),
                     model_accuracy |-> Some(85),
                     feature_count |-> IF scaler # None THEN scaler.nfeat ELSE 0])
    /\ calls' = << >>
    /\ UNCHANGED <<model, scaler, is_trained, disk_model, disk_scaler,
                   REQUEST_COUNT, ANOMALY_COUNT, nextRun, nextLoad, roundTrip>>

\* ------------------------------------------------------------- load_model
\* The steps of load_model that can raise, in program order.
AtExists == 1
AtLoadModel == 2
AtLoadScaler == 3
Loaded == 4

\* failures of joblib.load that do not depend on the request
LoadFaults == {AtLoadModel, AtLoadScaler, Loaded}

\* os.path.exists(model path) and os.path.exists(scaler path)
ArtifactsExist(fm, fs) == fm # NoFile /\ fs # NoFile

\* the step at which this request ends
LoadStage(fm, fs, fault) == IF ~ArtifactsExist(fm, fs) THEN AtExists ELSE fault

\* model = joblib.load("models/isolation_forest.pkl")
ModelAfterLoad(at, old, file, id) ==
    IF at > AtLoadModel THEN Unpickle(file, id) ELSE old

\* mutant of ScalerAfterLoad: the loaded scaler is not assigned to the global
ScalerAfterLoad_Keep(at, old, file, id) == old

\* scaler = joblib.load("models/scaler.pkl")
ScalerAfterLoad(at, old, file, id) ==
    IF at > AtLoadScaler THEN Unpickle(file, id) ELSE old

\* is_trained = True
TrainedAfterLoad(at, old) == IF at = Loaded THEN TRUE ELSE old

\* mutant of LoadStatus: the missing-file error keeps its own status
LoadStatus_NotFound(at) ==
    IF at = Loaded THEN 200 ELSE IF at = AtExists THEN 404 ELSE 500

\* The HTTPException(404) is raised inside the try block; HTTPException is
\* an Exception, so the handler's own except clause catches it and raises
\* the 500 in its place.
LoadStatus(at) == IF at = Loaded THEN 200 ELSE 500

LoadCause(at) ==
    CASE at = AtExists -> "404: No trained model found on disk"
      [] at = AtLoadModel -> "joblib.load model"
      [] at = AtLoadScaler -> "joblib.load scaler"
      [] OTHER -> ""

\* the round trip goes on at a successful load after a restart
TripAfterLoad(at, trip) ==
    IF at = Loaded /\ trip.phase \in {"restarted", "loaded"}
    THEN [trip EXCEPT !.phase = "loaded"]
    ELSE NoTrip

load_model(fault) ==
    LET at == LoadStage(disk_model, disk_scaler, fault)
    IN /\ at > AtLoadModel => nextLoad <= MaxLoads
       /\ model' = ModelAfterLoad(at, model, disk_model, nextLoad)
       /\ scaler' = ScalerAfterLoad(at, scaler, disk_scaler, nextLoad)
       /\ is_trained' = TrainedAfterLoad(at, is_trained)
       /\ nextLoad' = IF at > AtLoadModel THEN nextLoad + 1 ELSE nextLoad
       /\ response' =
            IF at = Loaded
            THEN Reply("load", LoadStatus(at), "Model loaded successfully",
                       NoBody, NoBody)
            ELSE Reply("load", LoadStatus(at), "Model loading failed", NoBody,
                       [cause |-> LoadCause(at)])
       /\ calls' = IF at = AtExists THEN <<Call("exists", None)>>
                   ELSE IF at = AtLoadModel
                   THEN <<Call("exists", None), Call("load", None)>>
                   ELSE <<Call("exists", None), Call("load", model'),
                          Call("load", IF at = Loaded THEN scaler' ELSE None)>>
       /\ roundTrip' = TripAfterLoad(at, roundTrip)
       /\ UNCHANGED <<disk_model, disk_scaler, REQUEST_COUNT, ANOMALY_COUNT,
                      nextRun>>

\* ---------------------------------------------------------- process start
\* The process ends and a new one imports the module: the globals and the
\* counters are the initial ones again, the files stay.
Restart ==
    /\ response.op # "start"
    /\ model' = None
    /\ scaler' = None
    /\ is_trained' = FALSE
    /\ REQUEST_COUNT' = 0
    /\ ANOMALY_COUNT' = 0
    /\ response' = Reply("start", 0, "", NoBody, NoBody)
    /\ calls' = << >>
    /\ roundTrip' = IF roundTrip.phase = "none" THEN NoTrip
                    ELSE [roundTrip EXCEPT !.phase = "restarted"]
    /\ running' = Idle
    /\ waiting' = << >>
    /\ answered' = 0
    /\ finished' = Idle
    /\ UNCHANGED <<disk_model, disk_scaler, nextRun, nextLoad>>

\* ----------------------------------------------------------------- inputs
TestSizes == {Some(DefaultTestSize), NoneVal}

Thresholds == {Some(DefaultThreshold), Some(-85), Some(0), NoneVal}

TrainingData == [logs : Batches, test_size : TestSizes]

AnomalyDetectionRequest == [logs : Batches, threshold : Thresholds]

\* one run of train_model; a collaborator failure is drawn only at a step
\* the request reaches
TrainRun(training_data) ==
    \E fault \in TrainFaults :
        /\ fault # Done => TrainStage(training_data, fault) = fault
        /\ train_model(training_data, fault)

\* one run of load_model
LoadRun ==
    \E fault \in LoadFaults :
        /\ fault # Loaded => LoadStage(disk_model, disk_scaler, fault) = fault
        /\ load_model(fault)

Train == /\ \E training_data \in TrainingData : TrainRun(training_data)
         /\ UNCHANGED loopVars

Detect == /\ \E request \in AnomalyDetectionRequest : detect_anomalies(request)
          /\ UNCHANGED loopVars

Status == get_model_status /\ UNCHANGED loopVars

Load == LoadRun /\ UNCHANGED loopVars

Next == Train \/ Detect \/ Status \/ Load \/ Restart

Spec == Init /\ [][Next]_vars


\* ------------------------------------------------- the request boundary
\* the Authorization header of a request: none, the accepted bearer token or
\* another one
Credentials == {NoneVal, Some("your-secret-token"), Some("invalid-token")}

\* security = HTTPBearer(): a request without credentials is refused before
\* verify_token runs, with 403 or with 401 depending on the FastAPI release
NotAuthenticated == {401, 403}

\* mutant of verify_token: every bearer token is accepted
verify_token_AnyToken(credentials) == credentials # NoneVal

\* credentials.credentials != "your-secret-token" raises 401
verify_token(credentials) ==
    credentials # NoneVal /\ credentials[1] = "your-secret-token"

\* the routes whose signature has Depends(verify_token)
Protected == {"train", "detect", "status", "load"}

\* the routes that take a request body, validated against its pydantic model
WithBody == {"train", "detect"}

\* a response produced before the handler is called
Refuse(op, status, detail) ==
    /\ response' = Reply(op, status, detail, NoBody, NoBody)
    /\ calls' = << >>
    /\ UNCHANGED <<model, scaler, is_trained, disk_model, disk_scaler,
                   REQUEST_COUNT, ANOMALY_COUNT, nextRun, nextLoad, roundTrip>>
    /\ UNCHANGED loopVars

\* One request to a protected route: the dependencies are solved first (the
\* bearer scheme, then verify_token), then the body is validated, and only
\* then is the handler called.
Gateway(op, credentials, body_ok) ==
    IF credentials = NoneVal
    THEN \E status \in NotAuthenticated : Refuse(op, status, "Not authenticated")
    ELSE IF ~verify_token(credentials)
    THEN Refuse(op, 401, "Invalid authentication credentials")
    ELSE IF op \in WithBody /\ ~body_ok
    THEN Refuse(op, 422, "Unprocessable Entity")
    ELSE CASE op = "train" -> Train
           [] op = "detect" -> Detect
           [] op = "status" -> Status
           [] op = "load" -> Load

\* a route without a body has no body to be malformed
Request ==
    \E op \in Protected, credentials \in Credentials, body_ok \in BOOLEAN :
        /\ op \notin WithBody => body_ok
        /\ Gateway(op, credentials, body_ok)

\* one process serving requests through the boundary
SpecGateway == Init /\ [][Request]_vars


\* ------------------------------------------- extract_features on its own
\* the records a batch is drawn from: two instants an hour apart and one of
\* the next day, two users, two endpoints, two outcomes, all with a UTC
\* offset, and two records sent without one
LogRecords ==
    {APILog(ts, TRUE, user, ep, code, 100, NoneVal, NoneVal) :
        ts \in {0, 3600, 90000}, user \in {"u1", "u2"}, ep \in {"/a", "/b"},
        code \in {200, 500}}
    \cup {APILog(ts, FALSE, "u1", "/a", 200, 100, NoneVal, NoneVal) :
              ts \in {0, 3600}}

LogBatches == UNION {[1..n -> LogRecords] : n \in 0..MaxLen}

\* a batch is about to be handed to extract_features
InitFeatures ==
    /\ model = None
    /\ scaler = None
    /\ is_trained = FALSE
    /\ disk_model = NoFile
    /\ disk_scaler = NoFile
    /\ REQUEST_COUNT = 0
    /\ ANOMALY_COUNT = 0
    /\ nextRun = 1
    /\ nextLoad = 1
    /\ response \in {Reply("logs", 0, "", [logs |-> logs], NoBody) :
                        logs \in LogBatches}
    /\ calls = << >>
    /\ roundTrip = NoTrip
    /\ running = Idle
    /\ waiting = << >>
    /\ answered = 0
    /\ finished = Idle

\* features_df = extract_features(logs)
Extract ==
    /\ response.op = "logs"
    /\ response' = Reply("extract_features", 0, "", response.req,
                         extract_features(response.req.logs))
    /\ calls' = <<Call("extract_features", None)>>
    /\ UNCHANGED <<model, scaler, is_trained, disk_model, disk_scaler,
                   REQUEST_COUNT, ANOMALY_COUNT, nextRun, nextLoad, roundTrip>>
    /\ UNCHANGED loopVars

SpecFeatures == InitFeatures /\ [][Extract]_vars


\* ------------------------------------------- train_test_split on its own
\* the held-out fractions a TrainingData may carry, in hundredths; None
\* leaves the choice to train_test_split
SplitSizes == {NoneVal} \cup {Some(f) : f \in {0, 10, 20, 25, 30, 50, 75, 100}}

\* a frame of n rows is about to be split
InitSplit ==
    /\ model = None
    /\ scaler = None
    /\ is_trained = FALSE
    /\ disk_model = NoFile
    /\ disk_scaler = NoFile
    /\ REQUEST_COUNT = 0
    /\ ANOMALY_COUNT = 0
    /\ nextRun = 1
    /\ nextLoad = 1
    /\ response \in {Reply("rows", 0, "", [n |-> n, test_size |-> f], NoBody) :
                        n \in 0..MaxRows, f \in SplitSizes}
    /\ calls = << >>
    /\ roundTrip = NoTrip
    /\ running = Idle
    /\ waiting = << >>
    /\ answered = 0
    /\ finished = Idle

\* X_train, X_test = train_test_split(features_df, test_size=..., random_state=42)
Split ==
    /\ response.op = "rows"
    /\ response' = Reply("split", 0, "", response.req,
                         [first |-> train_test_split(response.req.n,
                                                     response.req.test_size)])
    /\ calls' = <<Call("train_test_split", None)>>
    /\ UNCHANGED <<model, scaler, is_trained, disk_model, disk_scaler,
                   REQUEST_COUNT, ANOMALY_COUNT, nextRun, nextLoad, roundTrip>>
    /\ UNCHANGED loopVars

\* a second train splits the same frame with the same fraction
SplitAgain ==
    /\ response.op = "split"
    /\ response' = Reply("split again", 0, "", response.req,
                         [first |-> response.body.first,
                          second |-> train_test_split(response.req.n,
                                                      response.req.test_size)])
    /\ calls' = <<Call("train_test_split", None)>>
    /\ UNCHANGED <<model, scaler, is_trained, disk_model, disk_scaler,
                   REQUEST_COUNT, ANOMALY_COUNT, nextRun, nextLoad, roundTrip>>
    /\ UNCHANGED loopVars

NextSplit == Split \/ SplitAgain

SpecSplit == InitSplit /\ [][NextSplit]_vars


\* --------------------------------------------------------- the event loop
\* uvicorn.run(app) serves every route on one event loop.  Each handler is
\* an `async def` without an await, so once its coroutine starts it runs to
\* its return or raise before the loop runs anything else.

\* return {"status": "healthy", ...}
health_check ==
    /\ response' = Reply("health", 200, "", NoBody, [status |-> "healthy"])
    /\ calls' = << >>
    /\ UNCHANGED <<model, scaler, is_trained, disk_model, disk_scaler,
                   REQUEST_COUNT, ANOMALY_COUNT, nextRun, nextLoad, roundTrip>>

\* the authenticated, well-formed requests the clients send
LoopRequests ==
    {[op |-> "train",
      body |-> [logs |-> <<LogC, LogA, LogB>>, test_size |-> Some(DefaultTestSize)]],
     [op |-> "detect",
      body |-> [logs |-> <<LogA>>, threshold |-> Some(DefaultThreshold)]],
     [op |-> "status", body |-> NoBody],
     [op |-> "load", body |-> NoBody],
     [op |-> "health", body |-> NoBody]}

\* the routes that neither read nor write the model
Unrelated == {"health", "status"}

\* the requests received and not yet answered, the running one first
Pending == IF running = Idle THEN waiting ELSE <<running>> \o waiting

PendingOf(op) == Cardinality({i \in DOMAIN Pending : Pending[i].op = op})

\* the counters have room for the request and for those ahead of it
Admissible(r) ==
    /\ Len(waiting) < MaxWaiting
    /\ answered + Len(Pending) < MaxArrivals
    /\ r.op = "train" => nextRun + PendingOf("train") <= MaxRuns
    /\ r.op = "load" => nextLoad + PendingOf("load") <= MaxLoads
    /\ r.op = "detect" =>
           /\ REQUEST_COUNT + PendingOf("detect") < MaxRequests
           /\ ANOMALY_COUNT + (PendingOf("detect") + 1) * Len(r.body.logs)
                  <= MaxAnomalies

\* a client's request reaches the server while the loop is idle or busy
Arrive(r) ==
    /\ Admissible(r)
    /\ waiting' = Append(waiting, [op |-> r.op, body |-> r.body,
                                   during |-> running.op])
    /\ UNCHANGED <<model, scaler, is_trained, disk_model, disk_scaler,
                   REQUEST_COUNT, ANOMALY_COUNT, nextRun, nextLoad, response,
                   calls, roundTrip, running, answered, finished>>

\* the loop, having nothing to run, starts the handler of the oldest request
Dispatch ==
    /\ running = Idle
    /\ waiting # << >>
    /\ running' = Head(waiting)
    /\ waiting' = Tail(waiting)
    /\ UNCHANGED <<model, scaler, is_trained, disk_model, disk_scaler,
                   REQUEST_COUNT, ANOMALY_COUNT, nextRun, nextLoad, response,
                   calls, roundTrip, answered, finished>>

\* mutant of Release: a handler that raised keeps the loop
Release_HeldOnError(request, status) ==
    IF status = 500 THEN request ELSE Idle

\* every handler ends in a return or in a raise (the except clauses of
\* train_model, detect_anomalies and load_model re-raise as HTTPException);
\* either way its task is over
Release(request, status) == Idle

\* the running handler executes from its first line to its return or raise
Complete ==
    /\ running # Idle
    /\ CASE running.op = "train" -> TrainRun(running.body)
         [] running.op = "detect" -> detect_anomalies(running.body)
         [] running.op = "status" -> get_model_status
         [] running.op = "load" -> LoadRun
         [] running.op = "health" -> health_check
    /\ running' = Release(running, response'.status)
    /\ answered' = answered + 1
    /\ finished' = running
    /\ UNCHANGED waiting

Receive == \E r \in LoopRequests : Arrive(r)

NextLoop == Receive \/ Dispatch \/ Complete

SpecLoop == Init /\ [][NextLoop]_vars

\* the loop runs a ready task, and a handler's straight-line body terminates
SpecLoopFair == SpecLoop /\ WF_vars(Dispatch) /\ WF_vars(Complete)


\* ================================================================ claims
\* the rows, labels and scores of the detect request that `response` answers,
\* recomputed from the request with the estimators now in memory
ReqLogs == response.req.logs
ReqRows == Transform(scaler, Features(ReqLogs).rows)
ReqLabel(i) == predict(model, ReqRows[i])
ReqScore(i) == decision_function(model, ReqRows[i])
ReqBelow(i) ==
    /\ response.req.threshold # NoneVal
    /\ ReqScore(i) < response.req.threshold[1]
Reported(i) ==
    \E k \in DOMAIN response.body.anomalies :
        response.body.anomalies[k].log_index = i - 1
DetectOk == response.op = "detect" /\ response.status = 200

\* C1: a train request that fails, at whatever step, leaves the in-memory
\* scaler, the in-memory model and the trained flag as they were before it.
C1_FailedTrainKeepsState ==
    [][(Train /\ response'.status = 500)
       => (model' = model /\ scaler' = scaler /\ is_trained' = is_trained)]_vars

\* the scaler and the model were fit by one training run, or deserialised by
\* one load-model request
SamePair(s, m) == s.run = m.run \/ (s.origin # 0 /\ s.origin = m.origin)

\* C2: the scaler a detect request transforms with and the model it predicts
\* with come from the same training run, or were restored by the same load.
C2_DetectUsesOnePair ==
    response.op = "detect" =>
        \A i, j \in DOMAIN calls :
            (calls[i].fn = "transform" /\ calls[j].fn = "predict")
                => SamePair(calls[i].on, calls[j].on)

\* C3: when a train request returns success, the state is Trained, the
\* in-memory scaler and model are the fitted estimators of that request's
\* run, and both artifact files hold exactly that pair.
C3_TrainSuccessInstallsAndPersists ==
    (response.op = "train" /\ response.status = 200) =>
        /\ is_trained
        /\ scaler = Estimator(nextRun - 1, 0, TRUE, scaler.nfeat)
        /\ model = Estimator(nextRun - 1, 0, TRUE, model.nfeat)
        /\ scaler.nfeat = FeatureCount(Features(response.req.logs).rows)
        /\ disk_scaler = Pickle(scaler)
        /\ disk_model = Pickle(model)

\* C3 witness: a second training run has succeeded, over the files of the first
C3_Witness ==
    /\ response.op = "train" /\ response.status = 200
    /\ model.run = 2 /\ disk_model.run = 2 /\ disk_scaler.run = 2

\* C4: a detect request made while is_trained is false is answered 400
\* "Model not trained", makes no collaborator call and changes neither the
\* model state, the files nor a counter.
C4_UntrainedDetectDoesNothing ==
    [][(Detect /\ ~is_trained)
       => /\ response'.status = 400
          /\ response'.detail = "Model not trained"
          /\ calls' = << >>
          /\ UNCHANGED <<model, scaler, is_trained, disk_model, disk_scaler,
                         REQUEST_COUNT, ANOMALY_COUNT>>]_vars

\* C4 witness: a detect was rejected while estimators of a failed train were
\* in memory
C4_Witness ==
    /\ response.op = "detect" /\ response.status = 400
    /\ ~is_trained /\ model # None /\ scaler # None
    /\ model.fitted /\ scaler.fitted

\* C5: in a successful detect the record at position i is in the report if
\* and only if the model labels row i anomalous and its score is strictly
\* below the request threshold.
C5_ReportedIffLabelAndScore ==
    DetectOk =>
        \A i \in DOMAIN ReqLogs :
            Reported(i) <=> (ReqLabel(i) = -1 /\ ReqBelow(i))

\* C5 witness: one report with a reported row, a row labelled anomalous whose
\* score is not below the threshold, and a row labelled normal whose score is
C5_Witness ==
    /\ DetectOk
    /\ \E i \in DOMAIN ReqLogs : Reported(i)
    /\ \E i \in DOMAIN ReqLogs : ReqLabel(i) = -1 /\ ~ReqBelow(i) /\ ~Reported(i)
    /\ \E i \in DOMAIN ReqLogs : ReqLabel(i) = 1 /\ ReqBelow(i) /\ ~Reported(i)


\* C6: every reported anomaly has severity high when its score is below
\* -0.8, medium when it is at least -0.8 and below -0.5, low when it is at
\* least -0.5, and exactly one of the three.
C6_SeverityBands ==
    DetectOk =>
        \A k \in DOMAIN response.body.anomalies :
            LET a == response.body.anomalies[k]
            IN /\ a.severity \in {"high", "medium", "low"}
               /\ a.severity = "high" <=> a.anomaly_score < -80
               /\ a.severity = "medium" <=>
                      (a.anomaly_score >= -80 /\ a.anomaly_score < -50)
               /\ a.severity = "low" <=> a.anomaly_score >= -50

\* C6 witness: one report holds an anomaly scored exactly -0.8 and one
\* scored exactly -0.5
C6_Witness ==
    /\ DetectOk
    /\ \E k \in DOMAIN response.body.anomalies :
           response.body.anomalies[k].anomaly_score = -80
    /\ \E k \in DOMAIN response.body.anomalies :
           response.body.anomalies[k].anomaly_score = -50

\* C7: a load-model request made while an artifact file is absent is
\* answered 404 and leaves the model state as it was.
C7_MissingArtifactIs404 ==
    [][(Load /\ ~ArtifactsExist(disk_model, disk_scaler))
       => /\ response'.status = 404
          /\ UNCHANGED <<model, scaler, is_trained>>]_vars

\* C8: a load-model request that fails while deserialising either artifact
\* leaves the in-memory model, the in-memory scaler and the trained flag as
\* they were.
C8_FailedLoadKeepsState ==
    [][(Load /\ ArtifactsExist(disk_model, disk_scaler) /\ response'.status = 500)
       => UNCHANGED <<model, scaler, is_trained>>]_vars

\* C9: once is_trained is true it stays true over every train, load-model,
\* detect and status request of the process, no detect is answered 400 and
\* no status reports is_trained false.
C9_TrainedStaysTrained ==
    [][(is_trained /\ ~Restart)
       => /\ is_trained'
          /\ ~(response'.op = "detect" /\ response'.status = 400)
          /\ ~(response'.op = "status" /\ response'.status = 200
               /\ ~response'.body.is_trained)]_vars

\* C9 witness: a train request has failed after is_trained was set
C9_Witness ==
    /\ is_trained
    /\ response.op = "train" /\ response.status = 500
    /\ ~model.fitted

\* C10: after a successful train, a restart and a successful load-model, the
\* estimators in memory have the fitted state the train produced, and a
\* detect is answered as it is with the estimators of that train.
C10_RoundTrip ==
    roundTrip.phase = "loaded" =>
        /\ is_trained
        /\ Pickle(scaler) = roundTrip.scaler
        /\ Pickle(model) = roundTrip.model
        /\ response.op = "detect" =>
             LET d == Detection(Unpickle(roundTrip.scaler, 0),
                                Unpickle(roundTrip.model, 0), response.req)
             IN response.status = d.status /\ response.body = d.body

\* C10 witness: after the round trip a detect has reported an anomaly
C10_Witness ==
    /\ roundTrip.phase = "loaded"
    /\ DetectOk
    /\ response.body.anomaly_count > 0

\* C11: a detect on a batch of n >= 0 records, made in the Trained state with
\* fitted estimators, a numeric threshold and timestamps that subtract,
\* returns a report with total_logs = n, anomaly_count = the number of
\* anomaly records and anomaly_rate = anomaly_count / total_logs; for n = 0
\* the report has anomaly_count 0 and anomaly_rate 0.
C11_ReportCounts ==
    (/\ response.op = "detect"
     /\ is_trained /\ scaler.fitted /\ model.fitted
     /\ response.req.threshold # NoneVal
     /\ ~ExtractRaises(ReqLogs))
    => /\ response.status = 200
       /\ response.body.total_logs = Len(ReqLogs)
       /\ response.body.anomaly_count = Len(response.body.anomalies)
       /\ IF ReqLogs = << >>
          THEN response.body.anomaly_count = 0
               /\ response.body.anomaly_rate.num = 0
          ELSE response.body.anomaly_rate =
                   Ratio(response.body.anomaly_count, Len(ReqLogs))

\* C12: a train request with an empty batch of logs returns success (200).
C12_EmptyTrainSucceeds ==
    (response.op = "train" /\ response.req.logs = << >>)
        => response.status = 200

C15_AnomalyEchoesRecord ==
    DetectOk =>
        \A k \in DOMAIN response.body.anomalies :
            LET a == response.body.anomalies[k]
                i == a.log_index + 1
            IN /\ i \in DOMAIN ReqLogs
               /\ a.timestamp = ReqLogs[i].timestamp
               /\ a.user_id = ReqLogs[i].user_id
               /\ a.endpoint = ReqLogs[i].endpoint
               /\ a.method = ReqLogs[i].method
               /\ a.status_code = ReqLogs[i].status_code
               /\ a.response_time = ReqLogs[i].response_time
               /\ a.anomaly_score = ReqScore(i)
               /\ \A j \in DOMAIN response.body.anomalies :
                      j < k => response.body.anomalies[j].log_index < a.log_index

\* C15 witness: a reported anomaly that is not the first record of its batch
C15_Witness ==
    /\ DetectOk
    /\ \E k \in DOMAIN response.body.anomalies :
           /\ response.body.anomalies[k].log_index >= 1
           /\ ReqLogs[response.body.anomalies[k].log_index + 1] # ReqLogs[1]

\* C17: a status request answers 200; in the Untrained state with
\* is_trained false, no training date and feature_count 0; in the Trained
\* state with is_trained true and feature_count the number of features the
\* scaler was fit on.
C17_StatusReport ==
    response.op = "status" =>
        /\ response.status = 200
        /\ IF ~is_trained
           THEN /\ response.body.is_trained = FALSE
                /\ response.body.training_date = NoneVal
                /\ response.body.feature_count = 0
           ELSE /\ response.body.is_trained = TRUE
                /\ response.body.feature_count = scaler.nfeat

\* the positions a detect report lists
ReportedSet(body) ==
    {body.anomalies[k].log_index : k \in DOMAIN body.anomalies}

\* C20: for a fixed batch and a fixed scaler and model, the records reported
\* at a threshold are among those reported at any higher threshold.
C20_ThresholdMonotone ==
    (DetectOk /\ response.req.threshold # NoneVal) =>
        \A t \in Thresholds \ {NoneVal} :
            LET other == Detection(scaler, model,
                                   [response.req EXCEPT !.threshold = t])
                here == ReportedSet(response.body)
            IN /\ other.status = 200
               /\ response.req.threshold[1] <= t[1]
                      => here \subseteq ReportedSet(other.body)
               /\ t[1] <= response.req.threshold[1]
                      => ReportedSet(other.body) \subseteq here

\* C20 witness: a detect whose report would grow at a higher threshold and
\* shrink at a lower one
C20_Witness ==
    /\ DetectOk
    /\ response.req.threshold # NoneVal
    /\ \E lo, hi \in Thresholds \ {NoneVal} :
           /\ lo[1] < response.req.threshold[1]
           /\ response.req.threshold[1] < hi[1]
           /\ ReportedSet(Detection(scaler, model,
                  [response.req EXCEPT !.threshold = lo]).body)
                  # ReportedSet(response.body)
           /\ ReportedSet(Detection(scaler, model,
                  [response.req EXCEPT !.threshold = hi]).body)
                  # ReportedSet(response.body)

\* C14: a request to train, detect, status or load-model that carries no
\* token or a wrong token, or whose body is malformed, is answered 401 (403
\* on some releases, for a missing token) or 422, makes no collaborator call
\* and leaves the in-memory pair, the trained flag, the artifact files and
\* both counters as they were.
C14_RejectedRequestIsInert ==
    [][\A op \in Protected, credentials \in Credentials, body_ok \in BOOLEAN :
         (/\ \/ credentials # Some("your-secret-token")
             \/ (op \in WithBody /\ ~body_ok)
          /\ Gateway(op, credentials, body_ok))
         => /\ response'.status \in {401, 403, 422}
            /\ response'.op = op
            /\ calls' = << >>
            /\ UNCHANGED <<model, scaler, is_trained, disk_model, disk_scaler,
                           REQUEST_COUNT, ANOMALY_COUNT>>]_vars

\* C14 witness: a request has been rejected at the boundary while a trained
\* pair was in memory and on disk
C14_Witness ==
    /\ response.op \in Protected
    /\ response.status \in {401, 422}
    /\ is_trained /\ model.fitted /\ disk_model # NoFile

\* C16: extract_features on a batch of n >= 0 records returns n rows, row i
\* carrying the values of record i; on the empty batch it returns an empty
\* frame; it never raises.
C16_RowPerRecord ==
    response.op = "extract_features" =>
        /\ response.body.ok
        /\ Len(response.body.rows) = Len(ReqLogs)
        /\ \A i \in DOMAIN ReqLogs :
               /\ response.body.rows[i].status_code = ReqLogs[i].status_code
               /\ response.body.rows[i].response_time = ReqLogs[i].response_time
               /\ response.body.rows[i].hour = (ReqLogs[i].timestamp \div 3600) % 24
        /\ ReqLogs = << >> => response.body.rows = << >>

\* C18: while a train request is being executed, a request to health or
\* status that is next in line can be started, so that it is answered before
\* the train finishes.
C18_UnrelatedNotBlockedByTrain ==
    (/\ running.op = "train"
     /\ waiting # << >>
     /\ Head(waiting).op \in Unrelated)
        => ENABLED Dispatch

\* the k-th request the process received is waiting or running
Unanswered(k) == answered < k /\ k <= answered + Len(Pending)

\* the request is for op and was received while a handler of d was running
ArrivedDuring(r, op, d) == r # Idle /\ r.op = op /\ r.during = d

\* C19: a handler that has started finishes, with a success or a failure
\* response, and every request received is answered, whatever was running
\* when it arrived: a detect that arrived during a train, a train that
\* arrived during a detect.
C19_EveryRequestAnswered ==
    /\ [][Complete => (/\ response'.status \in {200, 400, 500}
                       /\ running' = Idle)]_vars
    /\ (running # Idle) ~> (running = Idle)
    /\ \A k \in 1..MaxArrivals : Unanswered(k) ~> (answered >= k)
    /\ (\E i \in DOMAIN waiting : ArrivedDuring(waiting[i], "detect", "train"))
           ~> ArrivedDuring(finished, "detect", "train")
    /\ (\E i \in DOMAIN waiting : ArrivedDuring(waiting[i], "train", "detect"))
           ~> ArrivedDuring(finished, "train", "detect")

\* C19 witness: a detect request that arrived while a train was running has
\* been answered, after that train succeeded
C19_Witness ==
    /\ ArrivedDuring(finished, "detect", "train")
    /\ response.op = "detect"
    /\ response.status = 200
    /\ running = Idle

\* extract_features has returned a frame for the batch in response.req
Extracted == response.op = "extract_features" /\ response.body.ok

\* number of positions of the batch that satisfy P
CountOf(P(_)) == Cardinality({j \in DOMAIN ReqLogs : P(j)})

IsError(j) == ReqLogs[j].status_code >= 400

\* C21: in every row the per-user count is the number of records of the
\* whole batch with the row's user_id and the per-user error rate is the
\* fraction of them with status_code >= 400; the per-endpoint count and
\* error rate are the same over the records with the row's endpoint; when
\* all records share one user_id every row's per-user error rate is the
\* batch-wide error rate.
C21_AggregatesOverWholeBatch ==
    Extracted =>
        \A i \in DOMAIN ReqLogs :
            LET row == response.body.rows[i]
                SameUser(j) == ReqLogs[j].user_id = ReqLogs[i].user_id
                SameUserError(j) == SameUser(j) /\ IsError(j)
                SameEndpoint(j) == ReqLogs[j].endpoint = ReqLogs[i].endpoint
                SameEndpointError(j) == SameEndpoint(j) /\ IsError(j)
            IN /\ row.user_request_frequency = CountOf(SameUser)
               /\ row.user_error_rate =
                      Ratio(CountOf(SameUserError), CountOf(SameUser))
               /\ row.endpoint_frequency = CountOf(SameEndpoint)
               /\ row.endpoint_error_rate =
                      Ratio(CountOf(SameEndpointError), CountOf(SameEndpoint))
               /\ (\A j \in DOMAIN ReqLogs : SameUser(j))
                      => row.user_error_rate =
                             Ratio(CountOf(IsError), Len(ReqLogs))

\* C21 witness: a frame for a batch whose first record shares its user with
\* a later record that is an error, and its endpoint with none
C21_Witness ==
    /\ Extracted
    /\ Len(ReqLogs) >= 2
    /\ ReqLogs[1].user_id = ReqLogs[2].user_id
    /\ ReqLogs[1].endpoint # ReqLogs[2].endpoint
    /\ ReqLogs[1].status_code < 400
    /\ IsError(2)

\* C22: in every row the recency count is the number of records l with
\* r.timestamp - l.timestamp < 3600: the record itself and every later
\* record are counted, a record 3600 seconds or more earlier is not; the
\* recency error rate is the fraction of the counted records with
\* status_code >= 400.
C22_RecencyOneSided ==
    Extracted =>
        \A i \in DOMAIN ReqLogs :
            LET row == response.body.rows[i]
                Counted(j) ==
                    ReqLogs[j].timestamp > ReqLogs[i].timestamp - Window
                CountedError(j) == Counted(j) /\ IsError(j)
                NotEarlier(j) == ReqLogs[j].timestamp >= ReqLogs[i].timestamp
                HourEarlier(j) ==
                    ReqLogs[j].timestamp <= ReqLogs[i].timestamp - Window
            IN /\ row.recent_requests = CountOf(Counted)
               /\ row.recent_requests >= CountOf(NotEarlier)
               /\ row.recent_requests <= Len(ReqLogs) - CountOf(HourEarlier)
               /\ row.recent_error_rate =
                      Ratio(CountOf(CountedError), CountOf(Counted))

\* C22 witness: a frame for a batch with a record exactly 3600 seconds after
\* the first one
C22_Witness ==
    /\ Extracted
    /\ \E i \in DOMAIN ReqLogs :
           ReqLogs[i].timestamp - ReqLogs[1].timestamp = Window

\* C30: within a batch a record with an earlier or equal timestamp has at
\* least the recency count of a later one; every recency count is at least
\* 1; a record with the earliest timestamp has recency count n.
C30_RecencyMonotone ==
    Extracted =>
        \A i \in DOMAIN ReqLogs :
            /\ response.body.rows[i].recent_requests >= 1
            /\ \A j \in DOMAIN ReqLogs :
                   ReqLogs[i].timestamp <= ReqLogs[j].timestamp
                       => response.body.rows[i].recent_requests
                              >= response.body.rows[j].recent_requests
            /\ (\A j \in DOMAIN ReqLogs :
                    ReqLogs[i].timestamp <= ReqLogs[j].timestamp)
                   => response.body.rows[i].recent_requests = Len(ReqLogs)

\* C30 witness: a frame for a batch whose last record is more than an hour
\* later than its first
C30_Witness ==
    /\ Extracted
    /\ Len(ReqLogs) >= 2
    /\ ReqLogs[Len(ReqLogs)].timestamp - ReqLogs[1].timestamp > Window

\* train_test_split has returned two splits for the frame in response.req
SplitDone == response.op \in {"split", "split again"} /\ response.body.first.ok

\* the held-out fraction in hundredths: the one given, or the library's
SplitFraction ==
    IF response.req.test_size = NoneVal THEN SplitDefault
    ELSE response.req.test_size[1]

\* round(a / b), halves to the even neighbour as Python's round does
RoundDiv(a, b) ==
    LET q == a \div b
        r == a % b
    IN IF 2 * r < b THEN q
       ELSE IF 2 * r > b THEN q + 1
       ELSE IF q % 2 = 0 THEN q ELSE q + 1

\* the rows of a split, as a set
RowsOf(split) == {split[k] : k \in DOMAIN split}

\* the two splits share no row and together hold every row once
SplitPartitions ==
    LET first == response.body.first
    IN /\ RowsOf(first.train) \cap RowsOf(first.test) = {}
       /\ RowsOf(first.train) \cup RowsOf(first.test) = 1..response.req.n
       /\ Len(first.train) + Len(first.test) = response.req.n
       /\ response.op = "split again" => response.body.second = first

TrainOk == response.op = "train" /\ response.status = 200

\* the two splits of the batch of the train request that `response` answers
ReqSplit == train_test_split(Len(ReqLogs), response.req.test_size)

\* the rows of a split that the model now in memory labels anomalous
AnomalousIn(split) == {k \in DOMAIN split : ReqLabel(split[k]) = -1}

\* C24: the payload of a successful train on n records has
\* training_samples = n, train_anomalies and test_anomalies the numbers of
\* rows of the training and of the held-out split that the new model labels
\* anomalous, and model_accuracy = 1 - test_anomalies / (held-out size).
C24_TrainPayload ==
    TrainOk =>
        /\ response.body.training_samples = Len(ReqLogs)
        /\ response.body.train_anomalies =
               Cardinality(AnomalousIn(ReqSplit.train))
        /\ response.body.test_anomalies =
               Cardinality(AnomalousIn(ReqSplit.test))
        /\ Len(ReqSplit.test) > 0
        /\ response.body.model_accuracy =
               Ratio(Len(ReqSplit.test) - response.body.test_anomalies,
                     Len(ReqSplit.test))

\* C24 witness: a successful train whose model labels anomalous a row of each
\* split, the training split being smaller than the batch
C24_Witness ==
    /\ TrainOk
    /\ response.body.train_anomalies >= 1
    /\ response.body.test_anomalies >= 1
    /\ Len(ReqSplit.train) < Len(ReqLogs)

\* C25: a detect or a status request, succeeding or failing, leaves the
\* in-memory scaler and model, the trained flag and both artifact files as
\* they were, and a detect transforms with the scaler that was in memory and
\* fits nothing; a step that changes any of them is a train, a load-model or
\* the start of a new process, and only a train changes the files.
C25_DetectAndStatusReadOnly ==
    [][/\ response'.op \in {"detect", "status"}
           => /\ UNCHANGED <<model, scaler, is_trained, disk_model, disk_scaler>>
              /\ \A k \in DOMAIN calls' :
                     /\ calls'[k].fn \notin {"fit", "fit_transform", "dump", "load"}
                     /\ calls'[k].fn = "transform" => calls'[k].on = scaler
       /\ <<model, scaler, is_trained>>' # <<model, scaler, is_trained>>
           => response'.op \in {"train", "load", "start"}
       /\ <<disk_model, disk_scaler>>' # <<disk_model, disk_scaler>>
           => response'.op = "train"]_vars

\* C25 witness: a detect has reported anomalies with a trained pair in
\* memory and on disk
C25_Witness ==
    /\ DetectOk
    /\ response.body.anomaly_count >= 1
    /\ is_trained /\ scaler.fitted /\ model.fitted
    /\ disk_model # NoFile /\ disk_scaler # NoFile

\* C26: a detect request raises the anomaly counter by the number of anomaly
\* records it returns: by its anomaly_count when it succeeds, by nothing when
\* it fails or is rejected at the boundary.
C26_CounterMatchesReport ==
    [][response'.op = "detect" =>
         IF response'.status = 200
         THEN /\ ANOMALY_COUNT' =
                     ANOMALY_COUNT + Len(response'.body.anomalies)
              /\ response'.body.anomaly_count = Len(response'.body.anomalies)
         ELSE ANOMALY_COUNT' = ANOMALY_COUNT]_vars

\* C26 witness: a detect has returned two anomaly records and the counter
\* stands at two
C26_Witness ==
    /\ DetectOk
    /\ Len(response.body.anomalies) = 2
    /\ ANOMALY_COUNT = 2

\* C27: the two artifact files are both absent or were both written by one
\* training run, and a load-model that succeeds restores a model and a
\* scaler of one training run.
C27_ArtifactsFromOneRun ==
    /\ \/ disk_model = NoFile /\ disk_scaler = NoFile
       \/ /\ disk_model # NoFile
          /\ disk_scaler # NoFile
          /\ disk_model.run = disk_scaler.run
    /\ (response.op = "load" /\ response.status = 200)
           => model.run = scaler.run

\* C28: a status request with a valid token answers 200 in every reachable
\* state, and whenever the trained flag is set the scaler in memory is a
\* fitted one.
C28_StatusAlwaysSucceeds ==
    /\ response.op = "status" => response.status = 200
    /\ is_trained => (scaler # None /\ scaler.fitted)

\* C29: a detect with a threshold of -0.5 or less reports no anomaly of
\* severity low; an anomaly of severity low is reported only at a threshold
\* greater than -0.5.
C29_NoLowAtDefaultThreshold ==
    DetectOk =>
        \A k \in DOMAIN response.body.anomalies :
            /\ response.req.threshold # NoneVal
            /\ response.req.threshold[1] <= MediumCut
                   => response.body.anomalies[k].severity \in {"medium", "high"}
            /\ response.body.anomalies[k].severity = "low"
                   => response.req.threshold[1] > MediumCut

\* C29 witness: a detect at the default threshold has reported an anomaly
\* while a row labelled anomalous scores exactly the threshold
C29_Witness ==
    /\ DetectOk
    /\ response.req.threshold = Some(DefaultThreshold)
    /\ response.body.anomalies # << >>
    /\ \E i \in DOMAIN ReqLogs :
           ReqLabel(i) = -1 /\ ReqScore(i) = DefaultThreshold

====
